---------------------------- MODULE Spec2Model ----------------------------
(***************************************************************************)
(* Farmer / biogas-plant adoption model (src/agents.py, src/model.py).     *)
(*                                                                         *)
(* Units.  Python floats are represented by scaled integers:               *)
(*   - willingness values, weights, thresholds and random draws are in     *)
(*     thousandths (0.25 is 250);                                          *)
(*   - farm sizes and capacities are in LSU; every farm size of the model  *)
(*     is a multiple of 25 LSU, which makes get_kw exact (see get_kw);     *)
(*   - tariffs and the tariff shift are in hundredths of a CHF per kWh;    *)
(*   - money_received is in units of 0.01 * (9/37000) * 24 * 365 CHF, so   *)
(*     that one payment is (tariff + shift) * get_kw(capacity).            *)
(***************************************************************************)
EXTENDS Integers, Sequences, FiniteSets, TLC

VARIABLES
    farmers,               \* farmer id -> the Farmer object's attributes
    plants,                \* BiogasPlant objects, in order of creation
    grid,                  \* MultiGrid: cell -> sequence of the agents on it
    time,                  \* FarmerBiogasModel.time
    pending,               \* agents of the current shuffle not yet visited
    biogas_payment_shift,  \* FarmerBiogasModel.biogas_payment_shift
    utility_min_threshold, \* FarmerBiogasModel.utility_min_threshold
    weights,               \* FarmerBiogasModel.weight_*, copied by every Farmer
    err,                   \* "none", or the assertion / exception that ended the run
    last                   \* the call handled last: who stepped, on which branch

vars == <<farmers, plants, grid, time, pending, biogas_payment_shift,
          utility_min_threshold, weights, err, last>>

-----------------------------------------------------------------------------
(* Bound of the model: the number of model steps taken *)

MaxTime == 2

(* numpy / random draws, enumerated from small sets *)
LsuSamples == {0, 150}               \* np.random.uniform(low, high) of sample_lsu, in [0, 150]
FarmCapacityShifts == {-75, 300}     \* farm_capacity_shift
PaymentShifts == {-30, -22}          \* biogas_payment_shift, in 0.01 CHF
BaseBuildDraws == {0}                \* g.uniform(0.0, 0.0001), the majority
ContribBonusDraws == {190}           \* g.uniform(0.0, 0.2)
MaxBonusDraws == {250}               \* self.random.uniform(0.1, 0.4)
Draws == {0, 999}                    \* self.random.random(), in [0, 1)
UtilityValues == {-5, 5}             \* value of the NPV branch of calculate_utility: one below, one above utility_min_threshold

-----------------------------------------------------------------------------
(* Program constants *)

(* FarmerBiogasModel(width=3, height=1): a row of three cells *)
Width == 3
Height == 1

None == -1

SMALL == 1
MEDIUM == 2
LARGE == 3
MIN_SIZE == 75
MAX_SIZE == 850

(* weight_global_build=0.2, weight_social_build=0.2,                 *)
(* weight_global_contribute=0.5, weight_social_contribute=0.5        *)
DefaultWeights ==
    [global_build |-> 200, social_build |-> 200,
     global_contribute |-> 500, social_contribute |-> 500]

(* self.weight_... = self.model.weight_... *)
weight_global_build == weights.global_build
weight_social_build == weights.social_build
weight_global_contribute == weights.global_contribute
weight_social_contribute == weights.social_contribute
contribute_threshold == 250

UTILITY_SENTINEL == -1000000000

Min(a, b) == IF a <= b THEN a ELSE b
Max(a, b) == IF a >= b THEN a ELSE b

NumFarmers == Width * Height
Farmers == 1 .. NumFarmers
Cells == (0 .. Width - 1) \X (0 .. Height - 1)

(* for x in range(width): for y in range(height): the i-th farmer created *)
CellOf(i) == <<(i - 1) \div Height, (i - 1) % Height>>

FarmerTag(f) == <<"F", f>>
PlantTag(p) == <<"P", p>>
IsFarmer(a) == a[1] = "F"

-----------------------------------------------------------------------------
(* Plant economics: BiogasPlant's static methods *)

get_size(capacity) ==
    IF capacity <= 100 THEN SMALL
    ELSE IF capacity <= 600 THEN MEDIUM
    ELSE LARGE

(* factor = (default_kw - 75) / (1000 - 75), clamped to [0, 1], in 1/1850:    *)
(* default_kw = 0.18 * capacity = 4.5 * k for capacity = 25 * k, hence        *)
(* factor = (4.5 k - 75) / 925 = (9 k - 150) / 1850.                          *)
kw_factor(capacity) == Max(0, Min(1850, 9 * (capacity \div 25) - 150))

(* get_kw in units of 9/37000 kW:                                             *)
(* default_kw * (1 + 0.3 * factor) = 4.5 k * (18500 + 3 * kw_factor) / 18500. *)
get_kw(capacity) == (capacity \div 25) * (18500 + 3 * kw_factor(capacity))

(* thresholds 50 kW and 100 kW in units of 9/37000 kW: kw <= 50 iff 9 * get_kw <= 50 * 37000 *)
get_stipend(capacity) ==
    IF 9 * get_kw(capacity) <= 50 * 37000 THEN 27
    ELSE IF 9 * get_kw(capacity) <= 100 * 37000 THEN 25
    ELSE 22

(* faulty variant: the guard of lines 260-261 is missing *)
calculate_utility_without_sentinel(plant_capacity, farmer_farm_size, npv_utility) ==
    npv_utility

(* calculate_utility: the sentinel branch is exact; the value of the NPV      *)
(* branch (a real-valued sum over plant_lifetime_years) is the argument npv_utility. *)
calculate_utility(plant_capacity, farmer_farm_size, npv_utility) ==
    IF plant_capacity <= 0 \/ farmer_farm_size <= 0
    THEN UTILITY_SENTINEL
    ELSE npv_utility

(* 1 / (1 + exp(-utility_sensitivity * util)) with utility_sensitivity = 1, in thousandths *)
p_utility_of(util) ==
    CASE util <= -5 -> 7
      [] util = 0 -> 500
      [] util >= 5 -> 993
      [] OTHER -> 500

(* 1 / (1 + exp(-k (t - t0))) with learning_rate k = 0.05 and learning_midpoint *)
(* t0 = 35, in thousandths                                                      *)
global_learning(t) ==
    CASE t <= 0 -> 148
      [] t = 1 -> 154
      [] t = 2 -> 161
      [] t = 3 -> 168
      [] t = 4 -> 175
      [] t = 5 -> 182
      [] OTHER -> 190

-----------------------------------------------------------------------------
(* Spatial index: mesa.space.MultiGrid(width, height, torus=False) *)

NoPos == <<>>

Abs(x) == IF x < 0 THEN -x ELSE x

(* the cells in the order MultiGrid iterates a neighbourhood: x, then y *)
CellSeq == [i \in 1 .. NumFarmers |-> CellOf(i)]

RECURSIVE agents_on(_, _)
agents_on(g, cells) ==
    IF cells = <<>> THEN <<>>
    ELSE g[Head(cells)] \o agents_on(g, Tail(cells))

(* grid.get_neighbors(pos, moore=True, include_center=False, radius) *)
get_neighbors(g, pos, radius) ==
    agents_on(g, SelectSeq(CellSeq, LAMBDA c:
        /\ c \in DOMAIN g
        /\ c # pos
        /\ Abs(c[1] - pos[1]) <= radius
        /\ Abs(c[2] - pos[2]) <= radius))

(* faulty variant: the cell holds one occupant, the newcomer replaces it *)
place_agent_replacing(g, tag, pos) == [g EXCEPT ![pos] = <<tag>>]

(* grid.place_agent(agent, pos) *)
place_agent(g, tag, pos) == [g EXCEPT ![pos] = Append(@, tag)]

(* grid.remove_agent(agent), for an agent standing on pos *)
remove_agent(g, tag, pos) == [g EXCEPT ![pos] = SelectSeq(@, LAMBDA a: a # tag)]

(* [n for n in neighbors if isinstance(n, Farmer)], as farmer ids *)
farmers_only(agents) ==
    LET fs == SelectSeq(agents, IsFarmer)
    IN [i \in 1 .. Len(fs) |-> fs[i][2]]

-----------------------------------------------------------------------------
(* Module-level helpers of agents.py *)

(* faulty variant: the filter forgets "not n.contributes_to_biogas_plant" *)
willing_ignoring_enrolment(fs, neighbors, threshold) ==
    SelectSeq(farmers_only(neighbors), LAMBDA n:
        fs[n].willingness_to_contribute > threshold)

(* faulty variant: the comparison with the threshold is not strict *)
willing_at_threshold(fs, neighbors, threshold) ==
    SelectSeq(farmers_only(neighbors), LAMBDA n:
        /\ ~fs[n].contributes_to_biogas_plant
        /\ fs[n].willingness_to_contribute >= threshold)

get_neighbors_willing_to_contribute(fs, neighbors, threshold) ==
    SelectSeq(farmers_only(neighbors), LAMBDA n:
        /\ ~fs[n].contributes_to_biogas_plant
        /\ fs[n].willingness_to_contribute > threshold)

RECURSIVE get_available_LSUs(_, _)
get_available_LSUs(fs, neighbors) ==
    IF neighbors = <<>> THEN 0
    ELSE fs[Head(neighbors)].farm_size + get_available_LSUs(fs, Tail(neighbors))

(* faulty variant: reverse=True is missing, the sort is ascending *)
insert_by_farm_size_ascending(fs, s, x) ==
    LET keep == SelectSeq(s, LAMBDA y: fs[y].farm_size <= fs[x].farm_size)
        rest == SelectSeq(s, LAMBDA y: fs[y].farm_size > fs[x].farm_size)
    IN keep \o <<x>> \o rest

(* sorted(pool, key=lambda x: x.farm_size, reverse=True): stable, so equal   *)
(* farm sizes keep their order                                               *)
insert_by_farm_size(fs, s, x) ==
    LET keep == SelectSeq(s, LAMBDA y: fs[y].farm_size >= fs[x].farm_size)
        rest == SelectSeq(s, LAMBDA y: fs[y].farm_size < fs[x].farm_size)
    IN keep \o <<x>> \o rest

RECURSIVE sorted_by_farm_size_desc(_, _)
sorted_by_farm_size_desc(fs, pool) ==
    IF pool = <<>> THEN <<>>
    ELSE insert_by_farm_size(fs,
             sorted_by_farm_size_desc(fs, SubSeq(pool, 1, Len(pool) - 1)),
             pool[Len(pool)])

(* faulty variant: the loop pops without subtracting the removed farm_size *)
pop_without_subtracting(fs, pool, lsus) ==
    IF lsus > MAX_SIZE THEN [pool |-> <<>>, lsus |-> lsus]
    ELSE [pool |-> pool, lsus |-> lsus]

(* while lsus > MAX_SIZE and pool: removed = pool.pop(); lsus -= removed.farm_size *)
RECURSIVE pop_while_over_max(_, _, _)
pop_while_over_max(fs, pool, lsus) ==
    IF lsus > MAX_SIZE /\ pool # <<>>
    THEN pop_while_over_max(fs, SubSeq(pool, 1, Len(pool) - 1),
                            lsus - fs[pool[Len(pool)]].farm_size)
    ELSE [pool |-> pool, lsus |-> lsus]

-----------------------------------------------------------------------------
(* BiogasPlant *)

(* faulty variant: any growth of the capacity counts as an upgrade *)
can_upgrade_on_any_growth(plant, additional_capacity) ==
    additional_capacity > 0

(* BiogasPlant.__init__, once its capacity assertion has passed *)
new_plant(owner, contributors, capacity) ==
    [capacity |-> capacity,
     owner |-> owner,
     contributors |-> contributors,
     plant_type |-> get_size(capacity),
     num_upgrades |-> 0]

can_upgrade(plant, additional_capacity) ==
    get_size(plant.capacity + additional_capacity) > plant.plant_type

(* faulty variant: upgrade forgets to recompute plant_type *)
upgraded_plant_stale_type(plant, additional_capacity, new_contributors) ==
    [plant EXCEPT
        !.capacity = @ + additional_capacity,
        !.contributors = @ \o new_contributors,
        !.num_upgrades = @ + 1]

(* faulty variant: upgrade assigns the new contributors instead of adding them *)
upgraded_plant_replacing_contributors(plant, additional_capacity, new_contributors) ==
    [plant EXCEPT
        !.capacity = @ + additional_capacity,
        !.contributors = new_contributors,
        !.plant_type = get_size(plant.capacity + additional_capacity),
        !.num_upgrades = @ + 1]

(* BiogasPlant.upgrade, once its assertion has passed *)
upgraded_plant(plant, additional_capacity, new_contributors) ==
    [plant EXCEPT
        !.capacity = @ + additional_capacity,
        !.contributors = @ \o new_contributors,
        !.plant_type = get_size(plant.capacity + additional_capacity),
        !.num_upgrades = @ + 1]

(* faulty variant: upgrade lacks its assertion *)
upgrade_unchecked(w, p, additional_capacity, new_contributors) ==
    [w EXCEPT !.plants[p] =
        upgraded_plant(w.plants[p], additional_capacity, new_contributors)]

(* BiogasPlant.upgrade on plant p of world w: the assertion, then the update *)
upgrade(w, p, additional_capacity, new_contributors) ==
    IF ~can_upgrade(w.plants[p], additional_capacity)
    THEN [w EXCEPT !.err = "New capacity must be larger to upgrade."]
    ELSE [w EXCEPT !.plants[p] =
              upgraded_plant(w.plants[p], additional_capacity, new_contributors)]

(* the payment of BiogasPlant.step *)
payment(capacity, shift) == (get_stipend(capacity) + shift) * get_kw(capacity)

(* faulty variant: the payment is subtracted *)
BiogasPlant_step_subtracting(w, p, shift) ==
    [w EXCEPT !.farmers[w.plants[p].owner].money_received =
                  @ - payment(w.plants[p].capacity, shift)]

(* faulty variant: the payment goes to the owner and to every contributor *)
BiogasPlant_step_paying_contributors(w, p, shift) ==
    [w EXCEPT !.farmers = [f \in DOMAIN w.farmers |->
        IF f = w.plants[p].owner
           \/ \E i \in 1 .. Len(w.plants[p].contributors) :
                 w.plants[p].contributors[i] = f
        THEN [w.farmers[f] EXCEPT !.money_received =
                  @ + payment(w.plants[p].capacity, shift)]
        ELSE w.farmers[f]]]

(* BiogasPlant.step of plant p *)
BiogasPlant_step(w, p, shift) ==
    [w EXCEPT !.farmers[w.plants[p].owner].money_received =
                  @ + payment(w.plants[p].capacity, shift)]

-----------------------------------------------------------------------------
(* Farmer *)

(* Farmer.__init__ *)
new_farmer(farm_size, willingness_to_build, willingness_to_contribute, max_bonus, pos) ==
    [farm_size |-> farm_size,
     base_willingness_to_build |-> willingness_to_build,
     base_willingness_to_contribute |-> willingness_to_contribute,
     willingness_to_build |-> willingness_to_build,
     willingness_to_contribute |-> willingness_to_contribute,
     time_of_adoption |-> None,
     has_biogas_plant |-> FALSE,
     contributes_to_biogas_plant |-> FALSE,
     biogas_plant |-> None,
     money_received |-> 0,
     max_willingness_to_build |-> Min(1000, willingness_to_build + max_bonus),
     pos |-> pos]

(* faulty variant: the loop body forgets neighbor.time_of_adoption = model.time *)
mark_one_without_time(w, n, t) ==
    IF w.farmers[n].time_of_adoption # None
    THEN [w EXCEPT !.err = "Neighbor is already a contributor!"]
    ELSE [w EXCEPT !.farmers[n].contributes_to_biogas_plant = TRUE,
                   !.farmers[n].pos = NoPos,
                   !.grid = remove_agent(w.grid, FarmerTag(n), w.farmers[n].pos)]

(* faulty variant: the loop body forgets model.grid.remove_agent(neighbor) *)
mark_one_keeping_on_grid(w, n, t) ==
    IF w.farmers[n].time_of_adoption # None
    THEN [w EXCEPT !.err = "Neighbor is already a contributor!"]
    ELSE [w EXCEPT !.farmers[n].contributes_to_biogas_plant = TRUE,
                   !.farmers[n].time_of_adoption = t]

(* faulty variant: the loop body forgets neighbor.contributes_to_biogas_plant = True *)
mark_one_without_flag(w, n, t) ==
    IF w.farmers[n].time_of_adoption # None
    THEN [w EXCEPT !.err = "Neighbor is already a contributor!"]
    ELSE [w EXCEPT !.farmers[n].time_of_adoption = t,
                   !.farmers[n].pos = NoPos,
                   !.grid = remove_agent(w.grid, FarmerTag(n), w.farmers[n].pos)]

(* one iteration of the loop of mark_neighbors_as_contributors *)
mark_one(w, n, t) ==
    IF w.farmers[n].time_of_adoption # None
    THEN [w EXCEPT !.err = "Neighbor is already a contributor!"]
    ELSE IF w.farmers[n].pos = NoPos
    THEN [w EXCEPT !.farmers[n].contributes_to_biogas_plant = TRUE,
                   !.farmers[n].time_of_adoption = t,
                   !.err = "remove_agent: agent is not on the grid"]
    ELSE [w EXCEPT !.farmers[n].contributes_to_biogas_plant = TRUE,
                   !.farmers[n].time_of_adoption = t,
                   !.farmers[n].pos = NoPos,
                   !.grid = remove_agent(w.grid, FarmerTag(n), w.farmers[n].pos)]

(* faulty variant: the pooled neighbours are not marked at all *)
mark_nobody(w, contributing_neighbors, t) == w

RECURSIVE mark_neighbors_as_contributors(_, _, _)
mark_neighbors_as_contributors(w, contributing_neighbors, t) ==
    IF contributing_neighbors = <<>> \/ w.err # "none" THEN w
    ELSE mark_neighbors_as_contributors(
             mark_one(w, Head(contributing_neighbors), t),
             Tail(contributing_neighbors), t)

(* faulty variant: the builder is not flagged contributes_to_biogas_plant *)
adopt_as_owner_leaving_pool(w, f, p, t) ==
    LET flagged == [w EXCEPT !.farmers[f].has_biogas_plant = TRUE,
                             !.farmers[f].biogas_plant = p]
    IN IF w.farmers[f].time_of_adoption # None
       THEN [flagged EXCEPT !.err = "Farmer is already an adopter!"]
       ELSE [flagged EXCEPT !.farmers[f].time_of_adoption = t]

(* the builder's own attributes, lines 237-243 of build_biogas_plant *)
adopt_as_owner(w, f, p, t) ==
    LET flagged == [w EXCEPT !.farmers[f].has_biogas_plant = TRUE,
                             !.farmers[f].contributes_to_biogas_plant = TRUE,
                             !.farmers[f].biogas_plant = p]
    IN IF w.farmers[f].time_of_adoption # None
       THEN [flagged EXCEPT !.err = "Farmer is already an adopter!"]
       ELSE [flagged EXCEPT !.farmers[f].time_of_adoption = t]

(* faulty variant: every willing neighbour is marked, the ones the trimming *)
(* dropped included                                                        *)
build_marking_every_candidate(w, f, capacity, contributing_neighbors, t) ==
    IF ~(MIN_SIZE <= capacity /\ capacity <= MAX_SIZE)
    THEN [w EXCEPT !.err = "Biogas plant capacity must be between 75 and 850 LSUs."]
    ELSE LET p == Len(w.plants) + 1
             placed == [w EXCEPT
                 !.plants = Append(@, new_plant(f, contributing_neighbors, capacity)),
                 !.grid = place_agent(w.grid, PlantTag(p), w.farmers[f].pos)]
             owned == adopt_as_owner(placed, f, p, t)
         IN mark_neighbors_as_contributors(owned,
                get_neighbors_willing_to_contribute(w.farmers,
                    get_neighbors(w.grid, w.farmers[f].pos, 1), contribute_threshold),
                t)

(* Farmer.build_biogas_plant *)
build_biogas_plant(w, f, capacity, contributing_neighbors, t) ==
    IF ~(MIN_SIZE <= capacity /\ capacity <= MAX_SIZE)
    THEN [w EXCEPT !.err = "Biogas plant capacity must be between 75 and 850 LSUs."]
    ELSE LET p == Len(w.plants) + 1
             placed == [w EXCEPT
                 !.plants = Append(@, new_plant(f, contributing_neighbors, capacity)),
                 !.grid = place_agent(w.grid, PlantTag(p), w.farmers[f].pos)]
             owned == adopt_as_owner(placed, f, p, t)
         IN mark_neighbors_as_contributors(owned, contributing_neighbors, t)

(* share_adopted of _update_adoption_and_learning, in thousandths *)
share_adopted(w, f) ==
    LET neighbors == farmers_only(get_neighbors(w.grid, w.farmers[f].pos, 2))
        adopted_neighbors == SelectSeq(neighbors, LAMBDA n:
            w.farmers[n].has_biogas_plant \/ w.farmers[n].contributes_to_biogas_plant)
    IN IF neighbors # <<>>
       THEN (1000 * Len(adopted_neighbors)) \div Len(neighbors)
       ELSE 0

(* faulty variant: the sums are stored without the max / min clamps *)
update_without_clamps(w, f, t) ==
    LET me == w.farmers[f]
        gl == global_learning(t)
        share == share_adopted(w, f)
    IN IF me.pos = NoPos
       THEN [w EXCEPT !.err = "get_neighbors: pos is None"]
       ELSE
       [w EXCEPT
         !.farmers[f].willingness_to_build =
                 me.base_willingness_to_build
                 + (weight_global_build * gl) \div 1000
                 + (weight_social_build * share) \div 1000,
         !.farmers[f].willingness_to_contribute =
                 me.base_willingness_to_contribute
                 + (weight_global_contribute * gl) \div 1000
                 + (weight_social_contribute * share) \div 1000]

(* Farmer._update_adoption_and_learning *)
update_adoption_and_learning(w, f, t) ==
    LET me == w.farmers[f]
        gl == global_learning(t)
        share == share_adopted(w, f)
    IN IF me.pos = NoPos
       THEN [w EXCEPT !.err = "get_neighbors: pos is None"]
       ELSE
       [w EXCEPT
         !.farmers[f].willingness_to_build =
             Max(0, Min(me.max_willingness_to_build,
                 me.base_willingness_to_build
                 + (weight_global_build * gl) \div 1000
                 + (weight_social_build * share) \div 1000)),
         !.farmers[f].willingness_to_contribute =
             Max(0, Min(1000,
                 me.base_willingness_to_contribute
                 + (weight_global_contribute * gl) \div 1000
                 + (weight_social_contribute * share) \div 1000))]

(* p_adopt = max(0.0, min(1.0, willingness_to_build ** 3)), in 10^-9 *)
p_adopt_of(willingness_to_build) ==
    Max(0, Min(1000000000,
        willingness_to_build * willingness_to_build * willingness_to_build))

(* faulty variant: the gate's comparison is turned around *)
gate_closed_inverted(willingness_to_build, r1) ==
    r1 * 1000000 < p_adopt_of(willingness_to_build)

(* if self.random.random() > p_adopt: return *)
gate_closed(willingness_to_build, r1) ==
    r1 * 1000000 > p_adopt_of(willingness_to_build)

(* faulty variant: available_lsus lacks the builder's own farm_size *)
trim_build_pool_without_own(fs, contributing_neighbors, farm_size) ==
    LET available_lsus == get_available_LSUs(fs, contributing_neighbors)
    IN IF available_lsus > MAX_SIZE
       THEN pop_while_over_max(fs,
                sorted_by_farm_size_desc(fs, contributing_neighbors),
                available_lsus)
       ELSE [pool |-> contributing_neighbors, lsus |-> available_lsus]

(* lines 153-161 of the build decision: the capacity of the candidates and *)
(* the own farm, and the trimming of the candidates when it exceeds MAX_SIZE *)
trim_build_pool(fs, contributing_neighbors, farm_size) ==
    LET available_lsus ==
            get_available_LSUs(fs, contributing_neighbors) + farm_size
    IN IF available_lsus > MAX_SIZE
       THEN pop_while_over_max(fs,
                sorted_by_farm_size_desc(fs, contributing_neighbors),
                available_lsus)
       ELSE [pool |-> contributing_neighbors, lsus |-> available_lsus]

(* the pool of a build decision, lines 139-161: the willing neighbours, trimmed *)
build_pool(w, f) ==
    LET me == w.farmers[f]
        neighbors == get_neighbors(w.grid, me.pos, 1)
        contributing_neighbors ==
            get_neighbors_willing_to_contribute(w.farmers, neighbors, contribute_threshold)
    IN trim_build_pool(w.farmers, contributing_neighbors, me.farm_size)

(* Farmer._decide_whether_to_build_biogas_plant; r1 and r2 are its two      *)
(* random() draws, npv_utility the value its utility takes off the sentinel *)
decide_whether_to_build_biogas_plant(w, f, t, r1, npv_utility, r2) ==
    LET me == w.farmers[f]
        chosen == build_pool(w, f)
        util == calculate_utility(chosen.lsus, me.farm_size, npv_utility)
    IN IF w.err # "none" THEN w
       ELSE IF gate_closed(me.willingness_to_build, r1) THEN w
       ELSE IF ~(MIN_SIZE <= chosen.lsus /\ chosen.lsus <= MAX_SIZE) THEN w
       ELSE IF util < utility_min_threshold THEN w
       ELSE IF ~(1000 >= me.willingness_to_build /\ me.willingness_to_build >= 0)
       THEN [w EXCEPT !.err = "Willingness must be in [0,1]"]
       ELSE IF r2 * 1000 < p_utility_of(util) * me.willingness_to_build
       THEN build_biogas_plant(w, f, chosen.lsus, chosen.pool, t)
       ELSE w

(* faulty variant: the loop counts the plant's capacity, as its entry test does *)
trim_upgrade_pool_against_total(fs, contributing_neighbors, capacity) ==
    LET additional_lsus == get_available_LSUs(fs, contributing_neighbors)
        popped == pop_while_over_max(fs,
                      sorted_by_farm_size_desc(fs, contributing_neighbors),
                      additional_lsus + capacity)
    IN IF additional_lsus + capacity > MAX_SIZE
       THEN [pool |-> popped.pool, lsus |-> popped.lsus - capacity]
       ELSE [pool |-> contributing_neighbors, lsus |-> additional_lsus]

(* lines 220-227 of the upgrade decision: the capacity of the candidates, and *)
(* their sorting and trimming when it exceeds MAX_SIZE with the plant's       *)
trim_upgrade_pool(fs, contributing_neighbors, capacity) ==
    LET additional_lsus == get_available_LSUs(fs, contributing_neighbors)
    IN IF additional_lsus + capacity > MAX_SIZE
       THEN pop_while_over_max(fs,
                sorted_by_farm_size_desc(fs, contributing_neighbors),
                additional_lsus)
       ELSE [pool |-> contributing_neighbors, lsus |-> additional_lsus]

(* the pool of an upgrade attempt, lines 208-227: the willing neighbours, trimmed *)
upgrade_pool(w, f) ==
    LET me == w.farmers[f]
        neighbors == get_neighbors(w.grid, me.pos, 1)
        contributing_neighbors ==
            get_neighbors_willing_to_contribute(w.farmers, neighbors, contribute_threshold)
    IN trim_upgrade_pool(w.farmers, contributing_neighbors,
                         w.plants[me.biogas_plant].capacity)

(* faulty variant: the plant is upgraded but the pooled neighbours are not marked *)
decide_to_upgrade_without_marking(w, f, t, r1) ==
    LET me == w.farmers[f]
        chosen == upgrade_pool(w, f)
    IN IF gate_closed(me.willingness_to_build, r1) THEN w
       ELSE IF can_upgrade(w.plants[me.biogas_plant], chosen.lsus)
       THEN upgrade(w, me.biogas_plant, chosen.lsus, chosen.pool)
       ELSE w

(* Farmer._decide_whether_to_upgrade_biogas_plant; r1 is its random() draw *)
decide_whether_to_upgrade_biogas_plant(w, f, t, r1) ==
    LET me == w.farmers[f]
        chosen == upgrade_pool(w, f)
    IN IF gate_closed(me.willingness_to_build, r1) THEN w
       ELSE IF can_upgrade(w.plants[me.biogas_plant], chosen.lsus)
       THEN mark_neighbors_as_contributors(
                upgrade(w, me.biogas_plant, chosen.lsus, chosen.pool),
                chosen.pool, t)
       ELSE w

(* faulty variant: step lacks the has_biogas_plant / contributes_to_biogas_plant checks *)
Farmer_step_always_deciding(w, f, t, r1, npv_utility, r2) ==
    decide_whether_to_build_biogas_plant(
        update_adoption_and_learning(w, f, t), f, t, r1, npv_utility, r2)

(* faulty variant: step lacks the early return of a contributor *)
Farmer_step_without_contributor_return(w, f, t, r1, npv_utility, r2) ==
    IF w.farmers[f].has_biogas_plant
    THEN decide_whether_to_upgrade_biogas_plant(w, f, t, r1)
    ELSE decide_whether_to_build_biogas_plant(
             update_adoption_and_learning(w, f, t), f, t, r1, npv_utility, r2)

(* faulty variant: an owner too updates its willingness before it decides *)
Farmer_step_updating_owner(w, f, t, r1, npv_utility, r2) ==
    IF w.farmers[f].has_biogas_plant
    THEN decide_whether_to_upgrade_biogas_plant(
             update_adoption_and_learning(w, f, t), f, t, r1)
    ELSE IF w.farmers[f].contributes_to_biogas_plant
    THEN w
    ELSE decide_whether_to_build_biogas_plant(
             update_adoption_and_learning(w, f, t), f, t, r1, npv_utility, r2)

(* Farmer.step *)
Farmer_step(w, f, t, r1, npv_utility, r2) ==
    IF w.farmers[f].has_biogas_plant
    THEN decide_whether_to_upgrade_biogas_plant(w, f, t, r1)
    ELSE IF w.farmers[f].contributes_to_biogas_plant
    THEN w
    ELSE decide_whether_to_build_biogas_plant(
             update_adoption_and_learning(w, f, t), f, t, r1, npv_utility, r2)

-----------------------------------------------------------------------------
(* FarmerBiogasModel *)

World == [farmers |-> farmers, plants |-> plants, grid |-> grid, err |-> err]

(* sample_lsu(shift): max(0, np.random.uniform(low, high) + shift) *)
sample_lsu(sample, shift) == Max(0, sample + shift)

(* FarmerBiogasModel.__init__: one farmer per cell, time = 0, no plant *)
Init ==
    /\ \E shift \in FarmCapacityShifts :
       \E sample \in [Farmers -> LsuSamples] :
       \E base_build \in [Farmers -> BaseBuildDraws] :
       \E bonus \in [Farmers -> ContribBonusDraws] :
       \E max_bonus \in [Farmers -> MaxBonusDraws] :
          farmers = [f \in Farmers |->
              new_farmer(sample_lsu(sample[f], shift),
                         base_build[f],
                         Max(0, Min(1000, base_build[f] + bonus[f])),
                         max_bonus[f],
                         CellOf(f))]
    /\ plants = <<>>
    /\ grid = [c \in Cells |->
                  <<FarmerTag(CHOOSE f \in Farmers : CellOf(f) = c)>>]
    /\ time = 0
    /\ pending = {}
    /\ biogas_payment_shift \in PaymentShifts
    /\ utility_min_threshold = 0
    /\ weights = DefaultWeights
    /\ err = "none"
    /\ last = [op |-> "init", who |-> 0, did |-> "none", arg |-> 0]

(* faulty variant: the population is read off the grid *)
agents_on_grid ==
    UNION {{grid[c][i] : i \in 1 .. Len(grid[c])} : c \in DOMAIN grid}

(* model.agents: every farmer created by __init__ and every plant built so    *)
(* far (Agent.__init__ registers an agent; grid.remove_agent leaves it there) *)
agents == {FarmerTag(f) : f \in DOMAIN farmers} \cup {PlantTag(p) : p \in 1 .. Len(plants)}

(* FarmerBiogasModel.step up to the shuffle: self.time += 1, then the order is drawn *)
ModelStep ==
    /\ err = "none"
    /\ pending = {}
    /\ time < MaxTime
    /\ time' = time + 1
    /\ pending' = agents
    /\ last' = [op |-> "model_step", who |-> 0, did |-> "none", arg |-> 0]
    /\ UNCHANGED <<farmers, plants, grid, biogas_payment_shift,
                   utility_min_threshold, weights, err>>

(* faulty variant: the shuffle walks the live population, plants built *)
(* during the walk included                                            *)
still_to_visit_live(queue, visited, w) ==
    (queue \ {visited}) \cup {PlantTag(p) : p \in Len(plants) + 1 .. Len(w.plants)}

(* shuffle_do walks the agents that existed when it started: after a visit *)
(* that left the world w, the visited agent is done and nothing is added   *)
still_to_visit(queue, visited, w) == queue \ {visited}

(* the branch Farmer.step takes for farmer f *)
branch_of(f) ==
    IF farmers[f].has_biogas_plant THEN "owner"
    ELSE IF farmers[f].contributes_to_biogas_plant THEN "contributor"
    ELSE "prospect"

(* what a step on that branch draws: a contributor draws nothing, an owner one *)
(* random(), a prospect up to two and the value of its utility                 *)
draws_of(branch) ==
    CASE branch = "contributor" -> {[r1 |-> 0, npv_utility |-> 0, r2 |-> 0]}
      [] branch = "owner" -> {[r1 |-> r, npv_utility |-> 0, r2 |-> 0] : r \in Draws}
      [] OTHER -> [r1 : Draws, npv_utility : UtilityValues, r2 : Draws]

(* what the step of farmer f did, w being the world it left: it built, it *)
(* upgraded, its upgrade attempt returned at the probability gate         *)
(* ("gated"), or none of these                                            *)
outcome_of(w, f, r1) ==
    IF Len(w.plants) > Len(plants) THEN "built"
    ELSE IF w.plants # plants THEN "upgraded"
    ELSE IF branch_of(f) = "owner"
            /\ gate_closed(w.farmers[f].willingness_to_build, r1) THEN "gated"
    ELSE "none"

(* shuffle_do visits farmer f: Farmer.step *)
FarmerStep(f) ==
    /\ err = "none"
    /\ FarmerTag(f) \in pending
    /\ \E d \in draws_of(branch_of(f)) :
          LET w == Farmer_step(World, f, time, d.r1, d.npv_utility, d.r2)
          IN /\ farmers' = w.farmers
             /\ plants' = w.plants
             /\ grid' = w.grid
             /\ err' = w.err
             /\ last' = [op |-> branch_of(f), who |-> f,
                          did |-> outcome_of(w, f, d.r1), arg |-> 0]
             /\ pending' = still_to_visit(pending, FarmerTag(f), w)
    /\ UNCHANGED <<time, biogas_payment_shift, utility_min_threshold, weights>>

(* shuffle_do visits plant p: BiogasPlant.step *)
PlantStep(p) ==
    /\ err = "none"
    /\ PlantTag(p) \in pending
    /\ LET w == BiogasPlant_step(World, p, biogas_payment_shift)
       IN /\ farmers' = w.farmers
          /\ plants' = w.plants
          /\ grid' = w.grid
          /\ err' = w.err
          /\ pending' = still_to_visit(pending, PlantTag(p), w)
    /\ last' = [op |-> "plant", who |-> p, did |-> "none", arg |-> 0]
    /\ UNCHANGED <<time, biogas_payment_shift, utility_min_threshold, weights>>

Next ==
    \/ ModelStep
    \/ \E f \in Farmers : FarmerStep(f)
    \/ \E p \in 1 .. Len(plants) : PlantStep(p)

Spec == Init /\ [][Next]_vars

-----------------------------------------------------------------------------
(* BiogasPlant.upgrade called directly, with any arguments *)

PlantCapacities == {c \in MIN_SIZE .. MAX_SIZE : c % 25 = 0}
AdditionalCapacities == {-25, 0, 25, 150, 500, 750}
NewContributorLists == {<<>>, <<2>>, <<2, 3>>}

(* a model in which farmer 1, of any admissible farm size, has built alone *)
InitUpgrade ==
    /\ \E capacity \in PlantCapacities :
          LET fresh == [farmers |-> [f \in Farmers |->
                            new_farmer(IF f = 1 THEN capacity ELSE 150,
                                       0, 190, 250, CellOf(f))],
                        plants |-> <<>>,
                        grid |-> [c \in Cells |->
                            <<FarmerTag(CHOOSE f \in Farmers : CellOf(f) = c)>>],
                        err |-> "none"]
              w == build_biogas_plant(fresh, 1, capacity, <<>>, 0)
          IN /\ farmers = w.farmers
             /\ plants = w.plants
             /\ grid = w.grid
             /\ err = w.err
    /\ time = 0
    /\ pending = {}
    /\ biogas_payment_shift \in PaymentShifts
    /\ utility_min_threshold = 0
    /\ weights = DefaultWeights
    /\ last = [op |-> "init", who |-> 0, did |-> "none", arg |-> 0]

(* plant.upgrade(additional_capacity, new_contributors) *)
UpgradeCall(p, additional_capacity, new_contributors) ==
    /\ err = "none"
    /\ LET w == upgrade(World, p, additional_capacity, new_contributors)
       IN /\ farmers' = w.farmers
          /\ plants' = w.plants
          /\ grid' = w.grid
          /\ err' = w.err
          /\ last' = [op |-> "upgrade", who |-> p,
                      did |-> IF w.err = "none" THEN "upgraded" ELSE "rejected",
                      arg |-> additional_capacity]
    /\ UNCHANGED <<time, pending, biogas_payment_shift, utility_min_threshold, weights>>

NextUpgrade ==
    \E p \in 1 .. Len(plants) :
    \E additional_capacity \in AdditionalCapacities :
    \E new_contributors \in NewContributorLists :
        UpgradeCall(p, additional_capacity, new_contributors)

SpecUpgrade == InitUpgrade /\ [][NextUpgrade]_vars

-----------------------------------------------------------------------------
(* A single isolated farmer: FarmerBiogasModel(width=1, height=1) with      *)
(* utility_min_threshold = -10 and biogas_payment_shift = 0, its farmer     *)
(* given a farm size a plant can have and a base willingness to build       *)

IsolatedFarmSizes == PlantCapacities
IsolatedWillingness == {300, 1000}

InitIsolated ==
    /\ \E farm_size \in IsolatedFarmSizes :
       \E willingness \in IsolatedWillingness :
       \E max_bonus \in MaxBonusDraws :
          farmers = <<new_farmer(farm_size, willingness, willingness,
                                 max_bonus, <<0, 0>>)>>
    /\ plants = <<>>
    /\ grid = [c \in {<<0, 0>>} |-> <<FarmerTag(1)>>]
    /\ time = 0
    /\ pending = {}
    /\ biogas_payment_shift = 0
    /\ utility_min_threshold = -10
    /\ weights = DefaultWeights
    /\ err = "none"
    /\ last = [op |-> "init", who |-> 0, did |-> "none", arg |-> 0]

(* FarmerBiogasModel.step, called for as long as the farmer has no plant and *)
(* up to MaxTime times in all; the counter is kept up to MaxTime             *)
ModelStepIsolated ==
    /\ err = "none"
    /\ pending = {}
    /\ time < MaxTime \/ plants = <<>>
    /\ time' = Min(time + 1, MaxTime)
    /\ pending' = agents
    /\ last' = [op |-> "model_step", who |-> 0, did |-> "none", arg |-> 0]
    /\ UNCHANGED <<farmers, plants, grid, biogas_payment_shift,
                   utility_min_threshold, weights, err>>

NextIsolated ==
    \/ ModelStepIsolated
    \/ \E f \in DOMAIN farmers : FarmerStep(f)
    \/ \E p \in 1 .. Len(plants) : PlantStep(p)

(* the driver keeps stepping and every agent of a shuffle is visited; a     *)
(* random draw that lets the farmer build is not withheld forever           *)
FairIsolated ==
    /\ WF_vars(ModelStepIsolated)
    /\ WF_vars(\E f \in DOMAIN farmers : FarmerStep(f))
    /\ WF_vars(\E p \in 1 .. Len(plants) : PlantStep(p))
    /\ SF_vars(\E f \in DOMAIN farmers : FarmerStep(f) /\ last'.did = "built")

SpecIsolated == InitIsolated /\ [][NextIsolated]_vars /\ FairIsolated

-----------------------------------------------------------------------------
(* The trimming of the build decision, applied to any pool of candidates:   *)
(* farmer 1 decides, farmers 2, 3, ... are its willing neighbours in the    *)
(* order the grid returned them                                             *)

MaxPool == 8
TrimFarmSizes == {100, 200, 450}
OwnFarmSizes == {0, 100, 900}

(* the candidates of farmer 1 *)
Candidates == [i \in 1 .. Len(farmers) - 1 |-> i + 1]

InitTrim ==
    /\ \E n \in 0 .. MaxPool :
       \E own \in OwnFarmSizes :
       \E size \in [2 .. n + 1 -> TrimFarmSizes] :
          farmers = [i \in 1 .. n + 1 |->
                        new_farmer(IF i = 1 THEN own ELSE size[i],
                                   0, 300, 250, NoPos)]
    /\ plants = <<>>
    /\ grid = <<>>
    /\ time = 0
    /\ pending = {}
    /\ biogas_payment_shift = 0
    /\ utility_min_threshold = 0
    /\ weights = DefaultWeights
    /\ err = "none"
    /\ last = [op |-> "init", who |-> 0, did |-> "none",
               arg |-> [pool |-> <<>>, lsus |-> 0]]

(* lines 153-161 run for farmer 1; their result is kept in last.arg *)
Trim ==
    /\ last.op = "init"
    /\ LET chosen == trim_build_pool(farmers, Candidates, farmers[1].farm_size)
       IN last' = [op |-> "trim", who |-> 1,
                   did |-> IF Len(chosen.pool) < Len(Candidates)
                           THEN "trimmed" ELSE "none",
                   arg |-> chosen]
    /\ UNCHANGED <<farmers, plants, grid, time, pending, biogas_payment_shift,
                   utility_min_threshold, weights, err>>

(* the capacity of the plant farmer 1 owns when it tries to upgrade *)
UpgradeCapacities == {75, 450, 850}

(* lines 220-227 run for farmer 1 as the owner of a plant of some capacity; *)
(* their result is kept in last.arg                                         *)
TrimUpgrade ==
    /\ last.op = "init"
    /\ \E capacity \in UpgradeCapacities :
          LET chosen == trim_upgrade_pool(farmers, Candidates, capacity)
          IN last' = [op |-> "trim_upgrade", who |-> 1,
                      did |-> IF Len(chosen.pool) < Len(Candidates)
                              THEN "trimmed" ELSE "none",
                      arg |-> [pool |-> chosen.pool, lsus |-> chosen.lsus,
                               capacity |-> capacity]]
    /\ UNCHANGED <<farmers, plants, grid, time, pending, biogas_payment_shift,
                   utility_min_threshold, weights, err>>

NextTrim == Trim \/ TrimUpgrade

SpecTrim == InitTrim /\ [][NextTrim]_vars

-----------------------------------------------------------------------------
(* The model under other learning weights and base willingness values:      *)
(* FarmerBiogasModel(width=3, height=1, weight_...=...), its farmers of 300 *)
(* LSU created with any base willingness in [0, 1]                          *)

LearningWeights ==
    {DefaultWeights,
     [global_build |-> -1000, social_build |-> -1000,
      global_contribute |-> -1000, social_contribute |-> -1000],
     [global_build |-> 5000, social_build |-> 5000,
      global_contribute |-> 5000, social_contribute |-> 5000]}
LearningBaseWillingness == {0, 500, 1000}
(* willingness_to_contribute - willingness_to_build of Farmer.__init__; with *)
(* 250 and a base of 0 the farmer starts exactly at contribute_threshold    *)
LearningContribBonus == {190, 250}

InitLearning ==
    /\ \E base_build \in LearningBaseWillingness :
       \E bonus \in LearningContribBonus :
       \E max_bonus \in MaxBonusDraws :
          farmers = [f \in Farmers |->
              new_farmer(300,
                         base_build,
                         Max(0, Min(1000, base_build + bonus)),
                         max_bonus,
                         CellOf(f))]
    /\ plants = <<>>
    /\ grid = [c \in Cells |->
                  <<FarmerTag(CHOOSE f \in Farmers : CellOf(f) = c)>>]
    /\ time = 0
    /\ pending = {}
    /\ biogas_payment_shift = 0
    /\ utility_min_threshold = 0
    /\ weights \in LearningWeights
    /\ err = "none"
    /\ last = [op |-> "init", who |-> 0, did |-> "none", arg |-> 0]

SpecLearning == InitLearning /\ [][Next]_vars

-----------------------------------------------------------------------------
(* Properties *)

Plants == 1 .. Len(plants)

Adopted(f) == farmers[f].has_biogas_plant \/ farmers[f].contributes_to_biogas_plant

(* how often farmer f occurs in the sequence s *)
Occurrences(s, f) == Cardinality({i \in 1 .. Len(s) : s[i] = f})

(* how often farmer f occurs in the contributors of all plants together *)
RECURSIVE Enrolments(_, _)
Enrolments(ps, f) ==
    IF ps = <<>> THEN 0
    ELSE Occurrences(Head(ps).contributors, f) + Enrolments(Tail(ps), f)

(* the cells of farmers a and b are within Chebyshev distance 1 *)
Adjacent(a, b) ==
    /\ a # b
    /\ Abs(CellOf(a)[1] - CellOf(b)[1]) <= 1
    /\ Abs(CellOf(a)[2] - CellOf(b)[2]) <= 1

(* C1: in every reachable state, a farmer's time_of_adoption is set iff the *)
(* farmer has a plant or contributes to one.                                *)
C1_AdoptionTimeIffAdopted ==
    \A f \in Farmers : (farmers[f].time_of_adoption # None) <=> Adopted(f)

(* a build that pooled a neighbour has just happened: owner and contributor adopted *)
C1_Witness ==
    /\ last.did = "built"
    /\ plants[Len(plants)].contributors # <<>>
    /\ farmers[last.who].time_of_adoption = time
    /\ \E f \in Farmers : ~farmers[f].has_biogas_plant /\ Adopted(f)

(* C2: every plant's capacity is within [MIN_SIZE, MAX_SIZE], at creation and *)
(* after every upgrade.                                                       *)
C2_CapacityInRange ==
    \A p \in Plants :
        MIN_SIZE <= plants[p].capacity /\ plants[p].capacity <= MAX_SIZE

(* C3: every farmer occurs at most once in the contributors of all plants *)
(* together.                                                              *)
C3_ContributorOfAtMostOnePlant ==
    \A f \in Farmers : Enrolments(plants, f) <= 1

(* within one model step a farmer built and pooled neighbour c, and then a   *)
(* farmer adjacent to c built as well, without pooling c, although c's       *)
(* willingness still exceeds the threshold                                   *)
C3_Witness ==
    /\ last.op = "prospect"
    /\ last.did = "built"
    /\ \E q \in Plants :
          /\ plants[q].owner # last.who
          /\ farmers[plants[q].owner].time_of_adoption = time
          /\ \E i \in 1 .. Len(plants[q].contributors) :
                LET c == plants[q].contributors[i]
                IN /\ Adjacent(c, last.who)
                   /\ farmers[c].time_of_adoption = time
                   /\ farmers[c].willingness_to_contribute > contribute_threshold

(* C4: once set, a farmer's time_of_adoption never changes, and neither *)
(* double-adoption assertion ever fails.                                *)
C4_AdoptionTimeWrittenOnce ==
    [][/\ \A f \in Farmers :
             farmers[f].time_of_adoption # None
                 => farmers'[f].time_of_adoption = farmers[f].time_of_adoption
       /\ err' # "Farmer is already an adopter!"
       /\ err' # "Neighbor is already a contributor!"]_vars

(* an owner of an earlier step has upgraded, marking newly pooled neighbours *)
C4_Witness ==
    /\ last.op = "owner"
    /\ last.did = "upgraded"
    /\ farmers[last.who].time_of_adoption < time
    /\ \E f \in Farmers :
          ~farmers[f].has_biogas_plant /\ farmers[f].time_of_adoption = time

(* C5: a call of upgrade whose new capacity is not of a strictly greater   *)
(* size class than plant_type fails and leaves the plant as it was; any    *)
(* other call strictly raises the plant's size class.                      *)
C5_UpgradeRejectedOrRaisesClass ==
    [][last'.op = "upgrade" =>
          LET p == last'.who
              additional_capacity == last'.arg
          IN IF get_size(plants[p].capacity + additional_capacity)
                    <= plants[p].plant_type
             THEN /\ err' = "New capacity must be larger to upgrade."
                  /\ plants'[p] = plants[p]
             ELSE /\ err' = "none"
                  /\ plants'[p].plant_type > plants[p].plant_type
                  /\ get_size(plants'[p].capacity) > get_size(plants[p].capacity)
      ]_vars

(* a plant was upgraded once, and a further call was rejected *)
C5_Witness ==
    /\ last.op = "upgrade"
    /\ last.did = "rejected"
    /\ err = "New capacity must be larger to upgrade."
    /\ plants[last.who].num_upgrades = 1

(* C6: every plant's plant_type is the size class of its current capacity. *)
C6_PlantTypeMatchesCapacity ==
    \A p \in Plants : plants[p].plant_type = get_size(plants[p].capacity)

(* an upgrade has just raised a plant's size class *)
C6_Witness ==
    /\ last.did = "upgraded"
    /\ \E p \in Plants :
          /\ plants[p].num_upgrades = 1
          /\ plants[p].plant_type > get_size(farmers[plants[p].owner].farm_size)

(* the plants and their owners are linked one to one *)
OwnersMatchPlants ==
    /\ Len(plants) = Cardinality({f \in Farmers : farmers[f].has_biogas_plant})
    /\ \A f \in Farmers :
          IF farmers[f].has_biogas_plant
          THEN /\ farmers[f].biogas_plant \in Plants
               /\ plants[farmers[f].biogas_plant].owner = f
          ELSE farmers[f].biogas_plant = None
    /\ \A p \in Plants : farmers[plants[p].owner].biogas_plant = p

(* C7: there are as many plants as farmers with has_biogas_plant, each such  *)
(* farmer's biogas_plant is a plant it owns, and a biogas_plant, once set,   *)
(* is never replaced.                                                        *)
C7_OnePlantPerOwner ==
    [][/\ OwnersMatchPlants
       /\ OwnersMatchPlants'
       /\ \A f \in Farmers :
             farmers[f].biogas_plant # None
                 => farmers'[f].biogas_plant = farmers[f].biogas_plant]_vars

(* two plants exist and the owner of an earlier step has just stepped again *)
C7_Witness ==
    /\ Len(plants) = 2
    /\ last.op = "owner"
    /\ farmers[last.who].time_of_adoption < time

(* C8: the step of a farmer that contributes without owning changes nothing *)
(* but the set of agents still to visit.                                    *)
C8_ContributorStepChangesNothing ==
    [][last'.op = "contributor"
          => UNCHANGED <<farmers, plants, grid, time, biogas_payment_shift,
                         utility_min_threshold, weights, err>>]_vars

(* a contributor was visited later in the very model step that pooled it *)
C8_Witness ==
    /\ last.op = "contributor"
    /\ ~farmers[last.who].has_biogas_plant
    /\ farmers[last.who].time_of_adoption = time
    /\ farmers[last.who].pos = NoPos

(* C9 (as stated): money_received never decreases, whatever the tariff shift. *)
C9_MoneyNeverDecreases ==
    [][\A f \in Farmers :
          farmers'[f].money_received >= farmers[f].money_received]_vars

(* C9 (amended): money_received never decreases when the tariff shift is at *)
(* least -0.22, the negative of the lowest tariff.                          *)
C9_MoneyNeverDecreasesForSmallShift ==
    [][biogas_payment_shift >= -22
          => \A f \in Farmers :
                farmers'[f].money_received >= farmers[f].money_received]_vars

(* a plant has just paid its owner under a negative tariff shift of -0.22 *)
C9_Witness ==
    /\ last.op = "plant"
    /\ biogas_payment_shift = -22
    /\ farmers[plants[last.who].owner].money_received > 0

(* C10: after a completed model step every farmer with a plant has received *)
(* money, also when its plant was built during that step.                   *)
C10_OwnersHaveMoneyAfterStep ==
    (time >= 1 /\ pending = {})
        => \A f \in Farmers :
              farmers[f].has_biogas_plant => farmers[f].money_received > 0

(* C11: the step of a farmer that owns a plant adds the plant's payment to *)
(* the farmer's money_received.                                            *)
C11_OwnerStepPays ==
    [][last'.op = "owner" =>
          farmers'[last'.who].money_received =
              farmers[last'.who].money_received
              + payment(plants[farmers[last'.who].biogas_plant].capacity,
                        biogas_payment_shift)]_vars

(* C12: the farmers of the agent population never change: nothing leaves the *)
(* population, only plants join it, and every model step visits all farmers. *)
C12_FarmerPopulationConstant ==
    [][/\ agents \subseteq agents'
       /\ \A a \in agents' \ agents : ~IsFarmer(a)
       /\ Cardinality({a \in agents' : IsFarmer(a)}) = NumFarmers
       /\ last'.op = "model_step"
             => Cardinality({a \in pending' : IsFarmer(a)}) = NumFarmers]_vars

(* a model step has begun with a farmer that was pooled and taken off the grid *)
C12_Witness ==
    /\ last.op = "model_step"
    /\ Len(plants) >= 1
    /\ \E f \in Farmers :
          /\ farmers[f].pos = NoPos
          /\ \A c \in Cells : Occurrences(grid[c], FarmerTag(f)) = 0
          /\ FarmerTag(f) \in pending

(* C13: an isolated farmer stays a prospect without a plant until it owns a *)
(* plant of its own farm size, which it eventually does; with farm_size 850 *)
(* and willingness_to_build 1.0 the plant has capacity 850 and is LARGE.    *)
C13_IsolatedFarmerEventuallyBuilds ==
    /\ [](~farmers[1].has_biogas_plant
            => /\ plants = <<>>
               /\ ~farmers[1].contributes_to_biogas_plant
               /\ farmers[1].time_of_adoption = None)
    /\ <>(/\ farmers[1].has_biogas_plant
          /\ Len(plants) = 1
          /\ plants[1].owner = 1
          /\ plants[1].capacity = farmers[1].farm_size
          /\ plants[1].plant_type = get_size(farmers[1].farm_size))
    /\ (farmers[1].farm_size = 850 /\ farmers[1].base_willingness_to_build = 1000)
          ~> (/\ farmers[1].has_biogas_plant
              /\ plants[1].capacity = 850
              /\ plants[1].plant_type = LARGE)

(* the farmer of 850 LSU and willingness 1.0 built after an unfavourable draw *)
C13_Witness ==
    /\ DOMAIN farmers = {1}
    /\ farmers[1].farm_size = 850
    /\ farmers[1].willingness_to_build = 1000
    /\ farmers[1].has_biogas_plant
    /\ farmers[1].time_of_adoption >= 2
    /\ plants[1].capacity = 850
    /\ plants[1].plant_type = LARGE

(* the farmers of the sequence s, as a set *)
Members(s) == {s[i] : i \in 1 .. Len(s)}

(* C14: when the candidates and the own farm exceed MAX_SIZE, the trimming  *)
(* ends with a capacity of at most MAX_SIZE or with no candidate left, and  *)
(* the capacity is the own farm_size plus the retained candidates'.         *)
C14_TrimmingEndsWithinMaxOrEmpty ==
    last.op = "trim" =>
        /\ last.arg.lsus = farmers[1].farm_size
                           + get_available_LSUs(farmers, last.arg.pool)
        /\ Members(last.arg.pool) \subseteq Members(Candidates)
        /\ get_available_LSUs(farmers, Candidates) + farmers[1].farm_size > MAX_SIZE
              => (last.arg.lsus <= MAX_SIZE \/ last.arg.pool = <<>>)

(* candidates were removed, and some were retained within MAX_SIZE *)
C14_Witness ==
    /\ last.op = "trim"
    /\ last.did = "trimmed"
    /\ Len(last.arg.pool) >= 2
    /\ Len(last.arg.pool) + 2 <= Len(Candidates)
    /\ last.arg.lsus <= MAX_SIZE
    /\ last.arg.lsus > farmers[1].farm_size

(* C15: no removed candidate is larger than a retained one, candidates are  *)
(* retained once each, and a non-empty retained pool holds a candidate of   *)
(* the largest farm_size.                                                   *)
C15_TrimmingRemovesSmallestFirst ==
    last.op = "trim" =>
        LET retained == Members(last.arg.pool)
            removed == Members(Candidates) \ retained
        IN /\ Cardinality(retained) = Len(last.arg.pool)
           /\ last.did = "trimmed" <=> removed # {}
           /\ \A r \in removed : \A k \in retained :
                 farmers[r].farm_size <= farmers[k].farm_size
           /\ (removed # {} /\ retained # {}) =>
                 \E k \in retained : \A c \in Members(Candidates) :
                     farmers[k].farm_size >= farmers[c].farm_size

(* a pool of 900 LSU, one farm of 200 among seven of 100: the farm of 200 *)
(* is retained and the capacity is at most MAX_SIZE                       *)
C15_Witness ==
    /\ last.op = "trim"
    /\ last.did = "trimmed"
    /\ farmers[1].farm_size = 0
    /\ Len(Candidates) = 8
    /\ get_available_LSUs(farmers, Candidates) = 900
    /\ Cardinality({c \in Members(Candidates) : farmers[c].farm_size = 200}) = 1
    /\ \E k \in Members(last.arg.pool) : farmers[k].farm_size = 200
    /\ last.arg.lsus <= MAX_SIZE

(* the farmers other than f whose cell is within Chebyshev distance 2 of f's *)
WithinTwo(f) ==
    {c \in Farmers \ {f} :
        /\ Abs(CellOf(c)[1] - CellOf(f)[1]) <= 2
        /\ Abs(CellOf(c)[2] - CellOf(f)[2]) <= 2}

(* C16: a contributor is still returned by the neighbour queries of the     *)
(* farmers around it, and share_adopted of a prospect is the fraction of    *)
(* the farmers within distance 2 that own a plant or contribute to one.     *)
C16_ContributorsStillNeighbors ==
    \A f \in Farmers :
        farmers[f].pos # NoPos =>
            /\ \A c \in WithinTwo(f) :
                  farmers[c].contributes_to_biogas_plant
                      => c \in Members(farmers_only(
                                  get_neighbors(grid, farmers[f].pos, 2)))
            /\ share_adopted(World, f) =
                  (1000 * Cardinality({c \in WithinTwo(f) : Adopted(c)}))
                      \div Cardinality(WithinTwo(f))

FarmersOn(c) == {i \in 1 .. Len(grid[c]) : IsFarmer(grid[c][i])}
PlantsOn(c) == {i \in 1 .. Len(grid[c]) : ~IsFarmer(grid[c][i])}

(* C18 (as stated): every cell holds at most one occupant. *)
C18_OneOccupantPerCell ==
    \A c \in DOMAIN grid : Len(grid[c]) <= 1

(* C18 (amended): every cell holds at most one farmer and at most one plant, *)
(* and every plant stands on the cell of its owner, together with it.        *)
C18_OneFarmerAndOnePlantPerCell ==
    /\ \A c \in DOMAIN grid :
          Cardinality(FarmersOn(c)) <= 1 /\ Cardinality(PlantsOn(c)) <= 1
    /\ \A p \in Plants :
          LET c == CellOf(plants[p].owner)
          IN /\ Occurrences(grid[c], PlantTag(p)) = 1
             /\ Occurrences(grid[c], FarmerTag(plants[p].owner)) = 1
             /\ Len(grid[c]) = 2

(* a farmer has just built: its cell holds the farmer and the plant *)
C18_Witness ==
    /\ last.did = "built"
    /\ Len(grid[CellOf(last.who)]) = 2
    /\ \E c \in DOMAIN grid : grid[c] = <<>>

C20_NoPlantWithoutLivestock ==
    /\ \A f \in DOMAIN farmers :
          farmers[f].farm_size <= 0 => ~farmers[f].has_biogas_plant
    /\ \A capacity \in {-25, 0, 75, 850} : \A farm_size \in {-25, 0, 75} :
       \A npv_utility \in UtilityValues :
          (capacity <= 0 \/ farm_size <= 0)
              => /\ calculate_utility(capacity, farm_size, npv_utility)
                        = UTILITY_SENTINEL
                 /\ UTILITY_SENTINEL < utility_min_threshold

(* a farmer without livestock, willing to build and next to a willing       *)
(* neighbour with which a plant of admissible capacity could be pooled, has *)
(* stepped in the second model step and remains without a plant             *)
C20_Witness ==
    /\ last.op = "prospect"
    /\ last.did = "none"
    /\ time = 2
    /\ farmers[last.who].farm_size = 0
    /\ farmers[last.who].willingness_to_build > 0
    /\ build_pool(World, last.who).pool # <<>>
    /\ build_pool(World, last.who).lsus >= MIN_SIZE
    /\ build_pool(World, last.who).lsus <= MAX_SIZE

(* C21: every farmer's willingness_to_build lies in [0,                     *)
(* max_willingness_to_build], max_willingness_to_build and                  *)
(* willingness_to_contribute lie in [0, 1], and the assertion of the build  *)
(* decision never fails.                                                    *)
C21_WillingnessWithinBounds ==
    /\ err # "Willingness must be in [0,1]"
    /\ \A f \in DOMAIN farmers :
          /\ 0 <= farmers[f].willingness_to_build
          /\ farmers[f].willingness_to_build <= farmers[f].max_willingness_to_build
          /\ farmers[f].max_willingness_to_build <= 1000
          /\ 0 <= farmers[f].willingness_to_contribute
          /\ farmers[f].willingness_to_contribute <= 1000

(* under weights of 5.0 a prospect with an adopted neighbour has updated: *)
(* both of its willingness values are held at their upper bounds          *)
C21_Witness ==
    /\ weights.social_build = 5000
    /\ last.op = "prospect"
    /\ share_adopted(World, last.who) > 0
    /\ farmers[last.who].base_willingness_to_build = 500
    /\ farmers[last.who].willingness_to_build = 750
    /\ farmers[last.who].willingness_to_contribute = 1000

(* C22: no step changes a plant's owner or removes a plant, the contributors *)
(* before a step are a prefix of those after it, and no capacity decreases.  *)
C22_ContributorsOnlyGrow ==
    [][/\ Len(plants') >= Len(plants)
       /\ \A p \in Plants :
             /\ plants'[p].owner = plants[p].owner
             /\ Len(plants'[p].contributors) >= Len(plants[p].contributors)
             /\ SubSeq(plants'[p].contributors, 1, Len(plants[p].contributors))
                    = plants[p].contributors
             /\ plants'[p].capacity >= plants[p].capacity]_vars

(* an upgrade has added a contributor behind one enrolled in an earlier step *)
C22_Witness ==
    /\ last.op = "owner"
    /\ last.did = "upgraded"
    /\ LET cs == plants[farmers[last.who].biogas_plant].contributors
       IN /\ Len(cs) >= 2
          /\ farmers[cs[1]].time_of_adoption < time
          /\ farmers[cs[Len(cs)]].time_of_adoption = time

(* the farmers a step has newly made contributors of another farmer's plant *)
NewlyPooled ==
    {n \in DOMAIN farmers :
        /\ farmers'[n].contributes_to_biogas_plant
        /\ ~farmers[n].contributes_to_biogas_plant
        /\ ~farmers'[n].has_biogas_plant}

(* C23: a farmer is pooled only from the grid, from a cell next to the      *)
(* acting farmer's, while not contributing yet and with a                   *)
(* willingness_to_contribute strictly above contribute_threshold.           *)
C23_PooledOnlyIfWillingNeighbor ==
    [][\A n \in NewlyPooled :
          /\ last'.op \in {"prospect", "owner"}
          /\ n # last'.who
          /\ farmers[n].pos # NoPos
          /\ farmers[last'.who].pos # NoPos
          /\ Abs(farmers[n].pos[1] - farmers[last'.who].pos[1]) <= 1
          /\ Abs(farmers[n].pos[2] - farmers[last'.who].pos[2]) <= 1
          /\ ~farmers[n].contributes_to_biogas_plant
          /\ farmers[n].time_of_adoption = None
          /\ farmers[n].willingness_to_contribute > contribute_threshold]_vars

(* the middle farmer has built with one neighbour; its other neighbour, on  *)
(* the grid and free, stands exactly at contribute_threshold and is left out *)
C23_Witness ==
    /\ last.op = "prospect"
    /\ last.did = "built"
    /\ last.who = 2
    /\ Len(plants[Len(plants)].contributors) = 1
    /\ \E n \in Farmers :
          /\ Adjacent(n, last.who)
          /\ farmers[n].pos # NoPos
          /\ ~farmers[n].contributes_to_biogas_plant
          /\ farmers[n].willingness_to_contribute = contribute_threshold

(* the adoption attributes of a farmer *)
AdoptionState(fs, n) ==
    <<fs[n].has_biogas_plant, fs[n].contributes_to_biogas_plant,
      fs[n].time_of_adoption>>

(* C24: a build at time t creates exactly one plant, with the trimmed        *)
(* capacity and the retained pool; the builder becomes owner and contributor *)
(* with time_of_adoption = t, every pooled farmer becomes contributor with   *)
(* time_of_adoption = t, and every other farmer, dropped candidates          *)
(* included, keeps its flags and time_of_adoption and stays on the grid.     *)
C24_BuildFrame ==
    [][last'.did = "built" =>
        LET f == last'.who
            chosen == build_pool(World, f)
            p == Len(plants')
        IN /\ Len(plants') = Len(plants) + 1
           /\ SubSeq(plants', 1, Len(plants)) = plants
           /\ plants'[p].owner = f
           /\ plants'[p].capacity = chosen.lsus
           /\ plants'[p].contributors = chosen.pool
           /\ AdoptionState(farmers, f) = <<FALSE, FALSE, None>>
           /\ AdoptionState(farmers', f) = <<TRUE, TRUE, time>>
           /\ \A n \in DOMAIN farmers \ {f} :
                 IF n \in Members(chosen.pool)
                 THEN AdoptionState(farmers', n) = <<FALSE, TRUE, time>>
                 ELSE /\ AdoptionState(farmers', n) = AdoptionState(farmers, n)
                      /\ farmers'[n].pos = farmers[n].pos
                      /\ Occurrences(farmers_only(agents_on(grid', CellSeq)), n)
                            = Occurrences(farmers_only(agents_on(grid, CellSeq)), n)]_vars

(* the middle farmer has built with one of its two willing neighbours: the *)
(* other, dropped by the trimming, is on the grid and free                 *)
C24_Witness ==
    /\ last.op = "prospect"
    /\ last.did = "built"
    /\ last.who = 2
    /\ Len(plants[Len(plants)].contributors) = 1
    /\ plants[Len(plants)].capacity = 750
    /\ \E n \in Farmers :
          /\ Adjacent(n, last.who)
          /\ farmers[n].pos # NoPos
          /\ farmers[n].time_of_adoption = None
          /\ ~farmers[n].contributes_to_biogas_plant
          /\ farmers[n].willingness_to_contribute > contribute_threshold

(* C25: the upgrade's trimming is entered on additional_capacity plus the    *)
(* plant's capacity, but drops the smallest candidates only until            *)
(* additional_capacity alone is within MAX_SIZE: candidates whose own sum is *)
(* within MAX_SIZE are all kept, whatever the plant's capacity.              *)
C25_UpgradeTrimsAgainstAdditionalAlone ==
    last.op = "trim_upgrade" =>
        LET total == get_available_LSUs(farmers, Candidates)
            sorted == sorted_by_farm_size_desc(farmers, Candidates)
            kept == last.arg.pool
        IN /\ last.arg.lsus = get_available_LSUs(farmers, kept)
           /\ total <= MAX_SIZE =>
                 /\ Len(kept) = Len(Candidates)
                 /\ Members(kept) = Members(Candidates)
           /\ total > MAX_SIZE =>
                 /\ kept = SubSeq(sorted, 1, Len(kept))
                 /\ Len(kept) < Len(Candidates)
                 /\ last.arg.lsus <= MAX_SIZE
                 /\ last.arg.lsus + farmers[sorted[Len(kept) + 1]].farm_size > MAX_SIZE

(* candidates have been dropped until their own sum was within MAX_SIZE, and *)
(* with the plant's capacity the kept ones are still above it                *)
C25_Witness ==
    /\ last.op = "trim_upgrade"
    /\ last.did = "trimmed"
    /\ Len(last.arg.pool) >= 2
    /\ last.arg.lsus <= MAX_SIZE
    /\ last.arg.lsus + last.arg.capacity > MAX_SIZE

(* C26: an owner's upgrade attempt changes nothing when its gate draw fails *)
(* or the size class would not rise; otherwise it adds the retained pool's  *)
(* farm sizes to the capacity, appends the pool to the contributors, raises *)
(* num_upgrades by one and marks exactly the pool's members as contributors *)
(* adopted at the current time.                                             *)
C26_UpgradeAllOrNothing ==
    [][last'.op = "owner" =>
        LET f == last'.who
            p == farmers[f].biogas_plant
            chosen == upgrade_pool(World, f)
            nothing == farmers' = farmers /\ plants' = plants /\ grid' = grid
            all ==
                /\ err' = "none"
                /\ Len(plants') = Len(plants)
                /\ \A q \in Plants \ {p} : plants'[q] = plants[q]
                /\ plants'[p].capacity = plants[p].capacity
                        + get_available_LSUs(farmers, chosen.pool)
                /\ plants'[p].contributors = plants[p].contributors \o chosen.pool
                /\ plants'[p].num_upgrades = plants[p].num_upgrades + 1
                /\ plants'[p].owner = f
                /\ \A n \in DOMAIN farmers :
                      IF n \in Members(chosen.pool)
                      THEN /\ AdoptionState(farmers, n) = <<FALSE, FALSE, None>>
                           /\ AdoptionState(farmers', n) = <<FALSE, TRUE, time>>
                      ELSE farmers'[n] = farmers[n]
        IN /\ nothing \/ all
           /\ last'.did = "upgraded" => all
           /\ \/ last'.did = "gated"
              \/ get_size(plants[p].capacity + chosen.lsus) <= get_size(plants[p].capacity)
              => nothing]_vars

(* an owner has upgraded with both of its neighbours *)
C26_Witness ==
    /\ last.op = "owner"
    /\ last.did = "upgraded"
    /\ LET pl == plants[farmers[last.who].biogas_plant]
       IN /\ pl.num_upgrades = 1
          /\ Len(pl.contributors) = 2
          /\ \A i \in 1 .. 2 :
                /\ farmers[pl.contributors[i]].time_of_adoption = time
                /\ farmers[pl.contributors[i]].contributes_to_biogas_plant
                /\ farmers[pl.contributors[i]].pos = NoPos

(* C27: every plant's capacity is its owner's farm_size plus the farm sizes *)
(* of its contributors.                                                     *)
C27_CapacityIsSumOfFarms ==
    \A p \in Plants :
        plants[p].capacity =
            farmers[plants[p].owner].farm_size
            + get_available_LSUs(farmers, plants[p].contributors)

(* a plant built with one neighbour has been upgraded with the other, to a *)
(* capacity above MAX_SIZE                                                 *)
C27_Witness ==
    \E p \in Plants :
        /\ plants[p].num_upgrades = 1
        /\ Len(plants[p].contributors) = 2
        /\ farmers[plants[p].contributors[1]].time_of_adoption
               < farmers[plants[p].contributors[2]].time_of_adoption
        /\ plants[p].capacity > MAX_SIZE

(* the "Cumulative Adopters" reporter of the datacollector *)
CumulativeAdopters ==
    Cardinality({f \in DOMAIN farmers :
        FarmerTag(f) \in agents /\ farmers[f].contributes_to_biogas_plant})

(* the farmers that have a time_of_adoption *)
EverAdopted == {f \in DOMAIN farmers : farmers[f].time_of_adoption # None}

(* C28: has_biogas_plant and contributes_to_biogas_plant, once true, stay     *)
(* true; the count of farmers with contributes_to_biogas_plant never          *)
(* decreases and is the number of farmers with a time_of_adoption.            *)
C28_AdoptionIrreversible ==
    [][/\ \A f \in DOMAIN farmers :
             /\ farmers[f].has_biogas_plant => farmers'[f].has_biogas_plant
             /\ farmers[f].contributes_to_biogas_plant
                    => farmers'[f].contributes_to_biogas_plant
             /\ farmers[f].time_of_adoption # None
                    => farmers'[f].time_of_adoption = farmers[f].time_of_adoption
       /\ CumulativeAdopters' >= CumulativeAdopters
       /\ CumulativeAdopters = Cardinality(EverAdopted)
       /\ CumulativeAdopters' = Cardinality(EverAdopted')]_vars

(* all three farmers count as adopters: one built in the first model step, *)
(* and was upgraded with a neighbour in the second                         *)
C28_Witness ==
    /\ CumulativeAdopters = 3
    /\ time = 2
    /\ \E f, n \in Farmers :
          /\ farmers[f].has_biogas_plant
          /\ farmers[f].time_of_adoption = 1
          /\ ~farmers[n].has_biogas_plant
          /\ farmers[n].time_of_adoption = 2
          /\ Occurrences(plants[farmers[f].biogas_plant].contributors, n) = 1

(* C29: a farmer with has_biogas_plant has contributes_to_biogas_plant; an *)
(* owner stays on the grid, and no plant's contributors contain an owner.  *)
C29_OwnerIsNeverPooled ==
    /\ \A f \in DOMAIN farmers :
          farmers[f].has_biogas_plant =>
              /\ farmers[f].contributes_to_biogas_plant
              /\ farmers[f].pos # NoPos
              /\ Occurrences(farmers_only(grid[farmers[f].pos]), f) = 1
              /\ Enrolments(plants, f) = 0
    /\ \A p \in Plants : \A n \in Members(plants[p].contributors) :
          ~farmers[n].has_biogas_plant

(* the middle farmer has built with one neighbour while its other          *)
(* neighbour, an owner since the step before and with a                    *)
(* willingness_to_contribute above the threshold, was on the grid          *)
C29_Witness ==
    /\ last.op = "prospect"
    /\ last.did = "built"
    /\ last.who = 2
    /\ Len(plants[Len(plants)].contributors) = 1
    /\ \E a \in Farmers :
          /\ Adjacent(a, last.who)
          /\ farmers[a].has_biogas_plant
          /\ farmers[a].time_of_adoption < time
          /\ farmers[a].pos # NoPos
          /\ farmers[a].willingness_to_contribute > contribute_threshold

(* C30: a plant's num_upgrades is 0, 1 or 2 and at most plant_type - 1, and *)
(* no upgrade attempt changes a plant of type LARGE.                         *)
C30_UpgradesBoundedByType ==
    /\ [](\A p \in Plants :
             /\ plants[p].num_upgrades \in {0, 1, 2}
             /\ plants[p].num_upgrades <= plants[p].plant_type - 1)
    /\ [][\A p \in Plants :
             plants[p].plant_type = LARGE => plants'[p] = plants[p]]_vars

(* a plant upgraded from SMALL to MEDIUM to LARGE has been called to upgrade *)
(* once more, and is as it was                                               *)
C30_Witness ==
    /\ last.op = "upgrade"
    /\ last.did = "rejected"
    /\ last.arg > 0
    /\ plants[last.who].num_upgrades = 2
    /\ plants[last.who].plant_type = LARGE

(* C31: a farmer without has_biogas_plant has money_received = 0, and the *)
(* step of a plant changes the money_received of its owner only.          *)
C31_OnlyOwnersReceiveMoney ==
    /\ [](\A f \in DOMAIN farmers :
             ~farmers[f].has_biogas_plant => farmers[f].money_received = 0)
    /\ [][last'.op = "plant" =>
             \A f \in DOMAIN farmers \ {plants[last'.who].owner} :
                 farmers'[f].money_received = farmers[f].money_received]_vars

(* a plant with a contributor has paid: its owner has money, the contributor none *)
C31_Witness ==
    /\ last.op = "plant"
    /\ farmers[plants[last.who].owner].money_received > 0
    /\ plants[last.who].contributors # <<>>
    /\ \A n \in Members(plants[last.who].contributors) :
          /\ farmers[n].contributes_to_biogas_plant
          /\ farmers[n].money_received = 0

(* C32: once a farmer has a plant or contributes to one, no step changes its *)
(* willingness_to_build or willingness_to_contribute: the gate of an upgrade *)
(* reads the willingness_to_build of the step in which the owner built.      *)
C32_WillingnessFrozenAtAdoption ==
    [][\A f \in DOMAIN farmers :
          Adopted(f) =>
              /\ farmers'[f].willingness_to_build = farmers[f].willingness_to_build
              /\ farmers'[f].willingness_to_contribute
                     = farmers[f].willingness_to_contribute]_vars

(* an owner that built in an earlier model step has taken its step, and an *)
(* update at the current time would have given it another willingness      *)
C32_Witness ==
    /\ last.op = "owner"
    /\ farmers[last.who].time_of_adoption < time
    /\ LET updated == update_adoption_and_learning(World, last.who, time)
       IN /\ updated.farmers[last.who].willingness_to_build
                # farmers[last.who].willingness_to_build
          /\ updated.farmers[last.who].willingness_to_contribute
                # farmers[last.who].willingness_to_contribute

=============================================================================
